---- MODULE Spec2Model ----
(***************************************************************************)
(* A model of scripts/solve.py: the BinairoSolver class.                   *)
(*                                                                         *)
(* A grid is a sequence of rows, each a sequence of cells; a cell is 0, 1  *)
(* or None.  The operators keep the 0-based row and column indices of the  *)
(* source: Cell(g, r, c) is self.grid[r][c].                               *)
(***************************************************************************)
EXTENDS Integers, Sequences, FiniteSets, TLC

VARIABLES
    puzzle,         \* the list the caller passed to BinairoSolver(puzzle)
    grid,           \* self.grid
    moves_log,      \* self.moves_log
    pc,             \* where the solver is: at rest, or inside solve
    empty_cells,    \* solve's local list empty_cells
    original_grid,  \* solve's local original_grid
    frames,         \* the loop variable val of every suspended _backtrack call
    val,            \* the next value the running _backtrack call tries
    found,          \* the value the outermost _backtrack call returned
    solved,         \* the first component of what solve returned
    count,          \* what count_solutions returned
    max_count,      \* the argument of the last count_solutions call
    entry_grid,     \* self.grid as it was when the last call was entered
    entry_log,      \* self.moves_log as it was when the last call was entered
    call,           \* the last direct call of a function and its result
    files           \* the puzzles directory: what every file of it holds

vars == <<puzzle, grid, moves_log, pc, empty_cells, original_grid, frames,
          val, found, solved, count, max_count, entry_grid, entry_log, call,
          files>>

-----------------------------------------------------------------------------
(* Bounds of the model *)

\* count_solutions is called with max_count in 0..MaxCount
MaxCount == 3

\* a 6x6 fixture is given to the solver with at most MaxHoles cells emptied
MaxHoles == 1

-----------------------------------------------------------------------------
(* Python values and lists *)

None == -1

Max(a, b) == IF a >= b THEN a ELSE b

Min(a, b) == IF a <= b THEN a ELSE b

\* range(lo, hi)
Range0(lo, hi) == lo .. (hi - 1)

Cell(g, r, c) == g[r + 1][c + 1]

SetCell(g, r, c, v) == [g EXCEPT ![r + 1][c + 1] = v]

\* a variant that is wrong: self.grid = puzzle, so that the solver writes
\* into the caller's list
SeenByCallerShared(p, g) == g

\* self.grid = copy.deepcopy(puzzle): the caller's list p after a step in
\* which the solver has written into its own grid, now g
SeenByCaller(p, g) == p

\* self.size and self.half_size
size == Len(puzzle)

half_size == size \div 2

\* a variant that is wrong: the letter is that of the row and the number
\* that of the column
MoveTransposed(r, c, v, note, index, total) ==
    [col |-> r, row |-> c + 1, val |-> v, note |-> note,
     index |-> index, total |-> total]

\* the text of a moves_log entry: "Set (<letter of c>,<r+1>) = <val> [<note>]";
\* index and total are the two numbers of a "Backtrack i/n" note, 0 otherwise
Move(r, c, v, note, index, total) ==
    [col |-> c, row |-> r + 1, val |-> v, note |-> note,
     index |-> index, total |-> total]

\* a variant that is wrong: it compares with row r instead of r + 1
StartsWithRowOff(entry, r, c, v) ==
    entry.col = c /\ entry.row = r /\ entry.val = v

\* entry.startswith(f"Set ({chr(65+c)},{r+1}) = {val}")
StartsWith(entry, r, c, v) ==
    entry.col = c /\ entry.row = r + 1 /\ entry.val = v

-----------------------------------------------------------------------------
(* _is_valid_placement *)

\* a variant that is wrong: it misses the window that starts at column c
RowWindowStartsShort(c) == Range0(Max(0, c - 2), Min(size - 2, c))

\* the start columns of the windows of three that contain column c
RowWindowStarts(c) == Range0(Max(0, c - 2), Min(size - 2, c + 1))

ColWindowStarts(r) == Range0(Max(0, r - 2), Min(size - 2, r + 1))

ThreeInRow(g, r, c) ==
    \E start_c \in RowWindowStarts(c) :
        /\ Cell(g, r, start_c) # None
        /\ Cell(g, r, start_c) = Cell(g, r, start_c + 1)
        /\ Cell(g, r, start_c + 1) = Cell(g, r, start_c + 2)

ThreeInColumn(g, r, c) ==
    \E start_r \in ColWindowStarts(r) :
        /\ Cell(g, start_r, c) # None
        /\ Cell(g, start_r, c) = Cell(g, start_r + 1, c)
        /\ Cell(g, start_r + 1, c) = Cell(g, start_r + 2, c)

\* a variant that is wrong: it counts the left half of the row only
RowCountLeftHalf(g, r, value) ==
    Cardinality({col \in Range0(0, half_size) : Cell(g, r, col) = value})

row_count(g, r, value) ==
    Cardinality({col \in Range0(0, size) : Cell(g, r, col) = value})

col_count(g, c, value) ==
    Cardinality({row \in Range0(0, size) : Cell(g, row, c) = value})

\* a variant that is wrong: it returns False without restoring the cell
PlacementNoRestore(g, r, c, value) ==
    LET placed == SetCell(g, r, c, value)
        valid ==
            /\ ~ThreeInRow(placed, r, c)
            /\ ~ThreeInColumn(placed, r, c)
            /\ ~(row_count(placed, r, value) > half_size
                    \/ col_count(placed, c, value) > half_size)
    IN  [valid |-> valid,
         grid |-> IF valid THEN SetCell(placed, r, c, Cell(g, r, c)) ELSE placed]

\* the value returned, and self.grid as the call leaves it
_is_valid_placement(g, r, c, value) ==
    LET original == Cell(g, r, c)
        placed == SetCell(g, r, c, value)
        valid ==
            /\ ~ThreeInRow(placed, r, c)
            /\ ~ThreeInColumn(placed, r, c)
            /\ ~(row_count(placed, r, value) > half_size
                    \/ col_count(placed, c, value) > half_size)
    IN  [valid |-> valid, grid |-> SetCell(placed, r, c, original)]

-----------------------------------------------------------------------------
(* is_complete and is_valid *)

is_complete(g) ==
    \A r \in Range0(0, size) : \A c \in Range0(0, size) : Cell(g, r, c) # None

\* list.count(x)
ListCount(list, x) == Cardinality({i \in 1..Len(list) : list[i] = x})

Column(g, c) == [r \in 1..size |-> Cell(g, r - 1, c)]

\* the loop over the rows, lines 285-293
RowsOk(g) ==
    \A r \in Range0(0, size) :
        LET row == g[r + 1] IN
        /\ ~(ListCount(row, 0) # half_size \/ ListCount(row, 1) # half_size)
        /\ \A c \in Range0(0, size - 2) :
               ~(row[c + 1] = row[c + 2] /\ row[c + 2] = row[c + 3])

\* the loop over the columns, lines 296-304
ColumnsOk(g) ==
    \A c \in Range0(0, size) :
        LET col == Column(g, c) IN
        /\ ~(ListCount(col, 0) # half_size \/ ListCount(col, 1) # half_size)
        /\ \A r \in Range0(0, size - 2) :
               ~(col[r + 1] = col[r + 2] /\ col[r + 2] = col[r + 3])

\* a variant that is wrong: it compares neighbouring rows only
NoDuplicateAdjacentRows(g) ==
    \A r1 \in Range0(0, size - 1) : g[r1 + 1] # g[r1 + 2]

NoDuplicateRows(g) ==
    \A r1 \in Range0(0, size) : \A r2 \in Range0(r1 + 1, size) :
        g[r1 + 1] # g[r2 + 1]

NoDuplicateColumns(g) ==
    \A c1 \in Range0(0, size) : \A c2 \in Range0(c1 + 1, size) :
        Column(g, c1) # Column(g, c2)

\* a variant that is wrong: it does not look for three consecutive values
is_valid_no_runs(g) ==
    /\ is_complete(g)
    /\ \A r \in Range0(0, size) :
           ListCount(g[r + 1], 0) = half_size /\ ListCount(g[r + 1], 1) = half_size
    /\ \A c \in Range0(0, size) :
           ListCount(Column(g, c), 0) = half_size
               /\ ListCount(Column(g, c), 1) = half_size
    /\ NoDuplicateRows(g)
    /\ NoDuplicateColumns(g)

is_valid(g) ==
    /\ is_complete(g)
    /\ RowsOk(g)
    /\ ColumnsOk(g)
    /\ NoDuplicateRows(g)
    /\ NoDuplicateColumns(g)

-----------------------------------------------------------------------------
(* _apply_forced_moves and _sort_by_constraints *)

\* a variant that is wrong: `if not self.grid[r][c]` takes a 0 for an empty
\* cell
RECURSIVE EmptyFalsyFrom(_, _)
EmptyFalsyFrom(g, k) ==
    IF k >= size * size THEN <<>>
    ELSE LET r == k \div size
             c == k % size
         IN  IF Cell(g, r, c) \in {None, 0}
             THEN <<(<<r, c>>)>> \o EmptyFalsyFrom(g, k + 1)
             ELSE EmptyFalsyFrom(g, k + 1)

EmptyCellsFalsy(g) == EmptyFalsyFrom(g, 0)

\* the cells (r, c) with self.grid[r][c] is None, in row-major order
RECURSIVE EmptyFrom(_, _)
EmptyFrom(g, k) ==
    IF k >= size * size THEN <<>>
    ELSE LET r == k \div size
             c == k % size
         IN  IF Cell(g, r, c) = None
             THEN <<(<<r, c>>)>> \o EmptyFrom(g, k + 1)
             ELSE EmptyFrom(g, k + 1)

EmptyCells(g) == EmptyFrom(g, 0)

\* a variant that is wrong: it stops at the first valid value, so a cell
\* that may take both values looks forced
ProbeFirstOnly(g, r, c) ==
    LET p0 == _is_valid_placement(g, r, c, 0)
        p1 == _is_valid_placement(p0.grid, r, c, 1)
    IN  [values |-> IF p0.valid THEN <<0>>
                    ELSE IF p1.valid THEN <<1>> ELSE <<>>,
         grid |-> IF p0.valid THEN p0.grid ELSE p1.grid]

\* for val in [0, 1]: if self._is_valid_placement(r, c, val): append val
Probe(g, r, c) ==
    LET p0 == _is_valid_placement(g, r, c, 0)
        p1 == _is_valid_placement(p0.grid, r, c, 1)
    IN  [values |-> (IF p0.valid THEN <<0>> ELSE <<>>)
                        \o (IF p1.valid THEN <<1>> ELSE <<>>),
         grid |-> p1.grid]

\* the sweep from cell number k on; progress is the local flag
RECURSIVE ForcedSweep(_, _, _, _)
ForcedSweep(g, log, k, progress) ==
    IF k >= size * size THEN [grid |-> g, log |-> log, ret |-> progress]
    ELSE LET r == k \div size
             c == k % size
         IN  IF Cell(g, r, c) # None THEN ForcedSweep(g, log, k + 1, progress)
             ELSE LET pr == Probe(g, r, c) IN
                  IF Len(pr.values) = 1
                  THEN ForcedSweep(
                           SetCell(pr.grid, r, c, pr.values[1]),
                           Append(log, Move(r, c, pr.values[1],
                                            "Forced by constraints", 0, 0)),
                           k + 1, TRUE)
                  ELSE IF Len(pr.values) = 0
                  THEN [grid |-> pr.grid, log |-> log, ret |-> FALSE]
                  ELSE ForcedSweep(pr.grid, log, k + 1, progress)

_apply_forced_moves(g, log) == ForcedSweep(g, log, 0, FALSE)

\* constraint_count of each cell of the list, in list order
RECURSIVE ConstraintCounts(_, _, _)
ConstraintCounts(g, cells, i) ==
    IF i > Len(cells) THEN [keys |-> <<>>, grid |-> g]
    ELSE LET pr == Probe(g, cells[i][1], cells[i][2])
             rest == ConstraintCounts(pr.grid, cells, i + 1)
         IN  [keys |-> <<Len(pr.values)>> \o rest.keys, grid |-> rest.grid]

\* the elements of cells whose key is k, in list order
RECURSIVE WithKey(_, _, _, _)
WithKey(cells, keys, k, i) ==
    IF i > Len(cells) THEN <<>>
    ELSE (IF keys[i] = k THEN <<cells[i]>> ELSE <<>>)
             \o WithKey(cells, keys, k, i + 1)

\* a variant that is wrong: the keys are computed and the list is returned
\* as it was
SortKeepsOrder(g, cells) ==
    LET cc == ConstraintCounts(g, cells, 1)
    IN  [cells |-> cells, grid |-> cc.grid]

\* a variant that is wrong: the list is sorted with the greatest key first
SortDescending(g, cells) ==
    LET cc == ConstraintCounts(g, cells, 1)
    IN  [cells |-> WithKey(cells, cc.keys, 2, 1)
                       \o WithKey(cells, cc.keys, 1, 1)
                       \o WithKey(cells, cc.keys, 0, 1),
         grid |-> cc.grid]

\* sorted(empty_cells, key=constraint_count): a stable sort on keys 0, 1, 2
_sort_by_constraints(g, cells) ==
    LET cc == ConstraintCounts(g, cells, 1)
    IN  [cells |-> WithKey(cells, cc.keys, 0, 1)
                       \o WithKey(cells, cc.keys, 1, 1)
                       \o WithKey(cells, cc.keys, 2, 1),
         grid |-> cc.grid]

-----------------------------------------------------------------------------
(* _backtrack *)

\* a variant that is wrong: it tries the value 0 only
TryOnlyZero(g, r, c, v) ==
    IF v > 0 THEN [placed |-> FALSE, val |-> v, grid |-> g]
    ELSE LET p == _is_valid_placement(g, r, c, v) IN
         [placed |-> p.valid, val |-> IF p.valid THEN v ELSE v + 1, grid |-> p.grid]

\* the for loop of _backtrack from value v on, up to its first valid value
RECURSIVE TryFrom(_, _, _, _)
TryFrom(g, r, c, v) ==
    IF v > 1 THEN [placed |-> FALSE, val |-> v, grid |-> g]
    ELSE LET p == _is_valid_placement(g, r, c, v) IN
         IF p.valid THEN [placed |-> TRUE, val |-> v, grid |-> p.grid]
         ELSE TryFrom(p.grid, r, c, v + 1)

-----------------------------------------------------------------------------
(* count_solutions *)

RECURSIVE _count_solutions_recursive(_, _, _, _)
RECURSIVE CountLoop(_, _, _, _, _, _, _)

\* a variant that is wrong: it never stops at max_count
CountLoopNoStop(g, cells, index, max, v, solution_count, leaves) ==
    IF v > 1 THEN [count |-> solution_count, grid |-> g, leaves |-> leaves]
    ELSE LET r == cells[index + 1][1]
             c == cells[index + 1][2]
             p == _is_valid_placement(g, r, c, v)
         IN  IF ~p.valid
             THEN CountLoop(p.grid, cells, index, max, v + 1, solution_count,
                            leaves)
             ELSE CHOOSE res \in
                      {CountLoop(SetCell(sub.grid, r, c, None), cells, index,
                                 max, v + 1, solution_count + sub.count,
                                 leaves \cup sub.leaves) :
                          sub \in {_count_solutions_recursive(
                                       SetCell(p.grid, r, c, v), cells,
                                       index + 1, max)}} : TRUE

\* the for loop of _count_solutions_recursive from value v on; leaves: the
\* grids that the calls below it have given to is_valid so far.  sub, the
\* result of the recursive call, is bound as the one element of a set, so
\* that it is computed once.
CountLoop(g, cells, index, max, v, solution_count, leaves) ==
    IF v > 1 THEN [count |-> solution_count, grid |-> g, leaves |-> leaves]
    ELSE LET r == cells[index + 1][1]
             c == cells[index + 1][2]
             p == _is_valid_placement(g, r, c, v)
         IN  IF ~p.valid
             THEN CountLoop(p.grid, cells, index, max, v + 1, solution_count,
                            leaves)
             ELSE CHOOSE res \in
                      {LET total == solution_count + sub.count
                           undone == SetCell(sub.grid, r, c, None)
                           given == leaves \cup sub.leaves
                       IN  IF total >= max
                           THEN [count |-> max, grid |-> undone,
                                 leaves |-> given]
                           ELSE CountLoop(undone, cells, index, max, v + 1,
                                          total, given) :
                          sub \in {_count_solutions_recursive(
                                       SetCell(p.grid, r, c, v), cells,
                                       index + 1, max)}} : TRUE

\* count: the value returned; grid: self.grid as the call leaves it; leaves:
\* the grids that line 345 gave to is_valid
_count_solutions_recursive(g, cells, index, max) ==
    IF index >= Len(cells)
    THEN [count |-> IF is_valid(g) THEN 1 ELSE 0, grid |-> g, leaves |-> {g}]
    ELSE CountLoop(g, cells, index, max, 0, 0, {})

\* the value returned, self.grid as the call leaves it, and the grids that the
\* recursion gave to is_valid
count_solutions(g, max) ==
    LET cells == EmptyCells(g) IN
    IF cells = <<>>
    THEN [count |-> IF is_valid(g) THEN 1 ELSE 0, grid |-> g, leaves |-> {}]
    ELSE LET sorted == _sort_by_constraints(g, cells)
             orig == sorted.grid
         IN  CHOOSE res \in
                 {[count |-> rec.count, grid |-> orig, leaves |-> rec.leaves] :
                     rec \in {_count_solutions_recursive(
                                  sorted.grid, sorted.cells, 0, max)}} : TRUE

-----------------------------------------------------------------------------
(* The puzzles given to the constructor *)

\* every 2x2 grid
Grids2 == [1..2 -> [1..2 -> {None, 0, 1}]]

\* the 4x4 grids whose rows are among these
RowChoices4 ==
    { <<0, 0, 1, 1>>, <<0, 1, 0, 1>>, <<0, 1, 1, 0>>,
      <<1, 0, 0, 1>>, <<1, 0, 1, 0>>, <<1, 1, 0, 0>>,
      <<0, 0, 0, 1>>, <<None, None, None, None>>,
      <<0, 0, None, None>>, <<None, 1, None, 0>> }

Grids4 == [1..4 -> RowChoices4]

\* complete 6x6 grids: a valid one, and one for each way of being invalid
Fixtures6 ==
    { << <<1,0,1,0,1,0>>, <<0,1,0,1,0,1>>, <<1,0,1,0,0,1>>,
         <<0,1,0,1,1,0>>, <<0,0,1,1,0,1>>, <<1,1,0,0,1,0>> >>,
      << <<0,1,1,0,1,0>>, <<0,0,0,1,1,1>>, <<1,1,0,1,0,0>>,
         <<1,0,1,0,1,0>>, <<0,0,1,1,0,1>>, <<1,1,0,0,0,1>> >>,
      << <<0,1,0,1,1,0>>, <<1,1,0,1,0,0>>, <<1,0,1,0,0,1>>,
         <<0,0,1,1,0,1>>, <<1,0,1,0,1,0>>, <<0,1,0,0,1,1>> >>,
      << <<0,1,0,1,0,1>>, <<1,0,1,0,1,0>>, <<0,1,1,0,0,1>>,
         <<0,1,0,1,1,0>>, <<1,0,0,1,0,1>>, <<1,0,1,0,1,0>> >>,
      << <<0,1,0,1,1,0>>, <<0,0,1,1,0,1>>, <<1,1,0,0,1,0>>,
         <<0,1,1,0,1,0>>, <<1,0,0,1,0,1>>, <<1,0,1,0,0,1>> >>,
      << <<0,1,1,0,0,1>>, <<0,0,1,1,0,1>>, <<1,1,0,0,1,0>>,
         <<0,0,1,0,1,1>>, <<1,1,0,1,0,0>>, <<0,1,0,1,0,1>> >>,
      << <<0,0,1,0,1,0>>, <<1,0,1,0,1,1>>, <<1,1,0,1,0,0>>,
         <<0,1,0,0,1,1>>, <<0,0,1,1,0,0>>, <<1,1,0,1,0,1>> >> }

RECURSIVE HoleSets(_)
HoleSets(k) ==
    IF k = 0 THEN {{}}
    ELSE LET less == HoleSets(k - 1)
         IN  less \cup {H \cup {<<r, c>>} :
                            H \in less, r \in 0..5, c \in 0..5}

Punch(g, H) ==
    [r \in 1..6 |-> [c \in 1..6 |->
        IF <<r - 1, c - 1>> \in H THEN None ELSE g[r][c]]]

Grids6 == {Punch(g, H) : g \in Fixtures6, H \in HoleSets(MaxHoles)}

Puzzles == Grids2 \cup Grids4 \cup Grids6

-----------------------------------------------------------------------------
(* The solver *)

NoCall == [op |-> "none", r |-> 0, c |-> 0, value |-> 0, result |-> FALSE]

\* a puzzles directory that does not exist yet
NoFiles == <<>>

\* BinairoSolver(puzzle)
Init ==
    /\ puzzle \in Puzzles
    /\ grid = puzzle
    /\ moves_log = <<>>
    /\ pc = "idle"
    /\ empty_cells = <<>>
    /\ original_grid = <<>>
    /\ frames = <<>>
    /\ val = 0
    /\ found = FALSE
    /\ solved = FALSE
    /\ count = 0
    /\ max_count = 0
    /\ entry_grid = puzzle
    /\ entry_log = <<>>
    /\ call = NoCall
    /\ files = NoFiles

\* BinairoSolver(puzzle) for a puzzle of the set ps
InitOn(ps) ==
    /\ puzzle \in ps
    /\ grid = puzzle
    /\ moves_log = <<>>
    /\ pc = "idle"
    /\ empty_cells = <<>>
    /\ original_grid = <<>>
    /\ frames = <<>>
    /\ val = 0
    /\ found = FALSE
    /\ solved = FALSE
    /\ count = 0
    /\ max_count = 0
    /\ entry_grid = puzzle
    /\ entry_log = <<>>
    /\ call = NoCall
    /\ files = NoFiles

\* no call is running
AtRest == pc \in {"idle", "done", "counted"}

\* a variant that is wrong: solve starts from an empty log
SolveClearsLog ==
    /\ AtRest
    /\ entry_grid' = grid
    /\ entry_log' = moves_log
    /\ empty_cells' = EmptyCells(grid)
    /\ IF EmptyCells(grid) = <<>>
       THEN pc' = "done" /\ solved' = is_valid(grid)
       ELSE pc' = "propagate" /\ solved' = FALSE
    /\ frames' = <<>>
    /\ val' = 0
    /\ found' = FALSE
    /\ original_grid' = <<>>
    /\ count' = 0
    /\ max_count' = 0
    /\ moves_log' = <<>>
    /\ UNCHANGED <<files, puzzle, grid, call>>

\* solve is called: it lists the empty cells and returns at once when there
\* are none
Solve ==
    /\ AtRest
    /\ entry_grid' = grid
    /\ entry_log' = moves_log
    /\ empty_cells' = EmptyCells(grid)
    /\ IF EmptyCells(grid) = <<>>
       THEN pc' = "done" /\ solved' = is_valid(grid)
       ELSE pc' = "propagate" /\ solved' = FALSE
    /\ frames' = <<>>
    /\ val' = 0
    /\ found' = FALSE
    /\ original_grid' = <<>>
    /\ count' = 0
    /\ max_count' = 0
    /\ UNCHANGED <<files, puzzle, grid, moves_log, call>>

\* a variant that is wrong: one sweep, whatever it returns, and the loop is
\* left
PropagateOnce ==
    /\ pc = "propagate"
    /\ LET sweep == _apply_forced_moves(grid, moves_log) IN
       /\ grid' = sweep.grid
       /\ moves_log' = sweep.log
       /\ empty_cells' =
              IF sweep.ret
              THEN SelectSeq(empty_cells,
                             LAMBDA cell : Cell(sweep.grid, cell[1], cell[2]) = None)
              ELSE empty_cells
       /\ pc' = "propagated"
    /\ puzzle' = SeenByCaller(puzzle, grid')
    /\ UNCHANGED <<files, original_grid, frames, val, found, solved, count,
                   max_count, entry_grid, entry_log, call>>

\* one iteration of the loop `while progress`
Propagate ==
    /\ pc = "propagate"
    /\ LET sweep == _apply_forced_moves(grid, moves_log) IN
       /\ grid' = sweep.grid
       /\ moves_log' = sweep.log
       /\ IF sweep.ret
          THEN /\ empty_cells' =
                      SelectSeq(empty_cells,
                                LAMBDA cell : Cell(sweep.grid, cell[1], cell[2]) = None)
               /\ pc' = "propagate"
          ELSE /\ empty_cells' = empty_cells
               /\ pc' = "propagated"
    /\ puzzle' = SeenByCaller(puzzle, grid')
    /\ UNCHANGED <<files, original_grid, frames, val, found, solved, count,
                   max_count, entry_grid, entry_log, call>>

\* after the loop: return when no cell is empty, else sort the cells, copy
\* the grid and call _backtrack(empty_cells, 0)
StartSearch ==
    /\ pc = "propagated"
    /\ IF empty_cells = <<>>
       THEN /\ solved' = is_valid(grid)
            /\ pc' = "done"
            /\ UNCHANGED <<grid, empty_cells, original_grid>>
       ELSE LET sorted == _sort_by_constraints(grid, empty_cells) IN
            /\ empty_cells' = sorted.cells
            /\ grid' = sorted.grid
            /\ original_grid' = sorted.grid
            /\ pc' = "backtrack"
            /\ UNCHANGED solved
    /\ puzzle' = SeenByCaller(puzzle, grid')
    /\ UNCHANGED <<files, moves_log, frames, val, found, count, max_count,
                   entry_grid, entry_log, call>>

\* the running call _backtrack(empty_cells, index), index = Len(frames), up
\* to its next recursive call or its return
Backtrack ==
    /\ pc = "backtrack"
    /\ LET index == Len(frames) IN
       IF index >= Len(empty_cells)
       THEN /\ IF is_valid(grid)
               THEN found' = TRUE /\ pc' = "finish"
               ELSE found' = found /\ pc' = "undo"
            /\ UNCHANGED <<grid, moves_log, frames, val>>
       ELSE LET r == empty_cells[index + 1][1]
                c == empty_cells[index + 1][2]
                try == TryFrom(grid, r, c, val)
            IN  IF try.placed
                THEN /\ grid' = SetCell(try.grid, r, c, try.val)
                     /\ moves_log' =
                            Append(moves_log,
                                   Move(r, c, try.val, "Backtrack",
                                        index + 1, Len(empty_cells)))
                     /\ frames' = Append(frames, try.val)
                     /\ val' = 0
                     /\ pc' = "backtrack"
                     /\ UNCHANGED found
                ELSE /\ grid' = try.grid
                     /\ pc' = IF index = 0 THEN "finish" ELSE "undo"
                     /\ UNCHANGED <<moves_log, frames, val, found>>
    /\ puzzle' = SeenByCaller(puzzle, grid')
    /\ UNCHANGED <<files, empty_cells, original_grid, solved, count, max_count,
                   entry_grid, entry_log, call>>

\* a variant that is wrong: after the undo the caller tries the same value
\* again
UndoRetry ==
    /\ pc = "undo"
    /\ LET index == Len(frames) - 1
           r == empty_cells[index + 1][1]
           c == empty_cells[index + 1][2]
           v == frames[Len(frames)]
       IN  /\ grid' = SetCell(grid, r, c, None)
           /\ moves_log' =
                  IF moves_log # <<>>
                        /\ StartsWith(moves_log[Len(moves_log)], r, c, v)
                  THEN SubSeq(moves_log, 1, Len(moves_log) - 1)
                  ELSE moves_log
           /\ frames' = SubSeq(frames, 1, Len(frames) - 1)
           /\ val' = v
    /\ pc' = "backtrack"
    /\ puzzle' = SeenByCaller(puzzle, grid')
    /\ UNCHANGED <<files, empty_cells, original_grid, found, solved, count,
                   max_count, entry_grid, entry_log, call>>

\* a variant that is wrong: the caller leaves its entry in the log
UndoKeepsEntry ==
    /\ pc = "undo"
    /\ LET index == Len(frames) - 1
           r == empty_cells[index + 1][1]
           c == empty_cells[index + 1][2]
           v == frames[Len(frames)]
       IN  /\ grid' = SetCell(grid, r, c, None)
           /\ moves_log' = moves_log
           /\ frames' = SubSeq(frames, 1, Len(frames) - 1)
           /\ val' = v + 1
    /\ pc' = "backtrack"
    /\ puzzle' = SeenByCaller(puzzle, grid')
    /\ UNCHANGED <<files, empty_cells, original_grid, found, solved, count,
                   max_count, entry_grid, entry_log, call>>

\* a variant that is wrong: the caller leaves the value in its cell
UndoKeepsCell ==
    /\ pc = "undo"
    /\ LET index == Len(frames) - 1
           r == empty_cells[index + 1][1]
           c == empty_cells[index + 1][2]
           v == frames[Len(frames)]
       IN  /\ grid' = grid
           /\ moves_log' =
                  IF moves_log # <<>>
                        /\ StartsWith(moves_log[Len(moves_log)], r, c, v)
                  THEN SubSeq(moves_log, 1, Len(moves_log) - 1)
                  ELSE moves_log
           /\ frames' = SubSeq(frames, 1, Len(frames) - 1)
           /\ val' = v + 1
    /\ pc' = "backtrack"
    /\ puzzle' = SeenByCaller(puzzle, grid')
    /\ UNCHANGED <<files, empty_cells, original_grid, found, solved, count,
                   max_count, entry_grid, entry_log, call>>

\* a recursive call returned False: the caller empties its cell, pops its
\* entry from the log and goes on with its next value
Undo ==
    /\ pc = "undo"
    /\ LET index == Len(frames) - 1
           r == empty_cells[index + 1][1]
           c == empty_cells[index + 1][2]
           v == frames[Len(frames)]
       IN  /\ grid' = SetCell(grid, r, c, None)
           /\ moves_log' =
                  IF moves_log # <<>>
                        /\ StartsWith(moves_log[Len(moves_log)], r, c, v)
                  THEN SubSeq(moves_log, 1, Len(moves_log) - 1)
                  ELSE moves_log
           /\ frames' = SubSeq(frames, 1, Len(frames) - 1)
           /\ val' = v + 1
    /\ pc' = "backtrack"
    /\ puzzle' = SeenByCaller(puzzle, grid')
    /\ UNCHANGED <<files, empty_cells, original_grid, found, solved, count,
                   max_count, entry_grid, entry_log, call>>

\* _backtrack has returned to solve
Finish ==
    /\ pc = "finish"
    /\ IF found /\ is_valid(grid)
       THEN solved' = TRUE /\ grid' = grid
       ELSE solved' = FALSE /\ grid' = original_grid
    /\ frames' = <<>>
    /\ val' = 0
    /\ pc' = "done"
    /\ UNCHANGED <<files, puzzle, moves_log, empty_cells, original_grid, found, count,
                   max_count, entry_grid, entry_log, call>>

\* count_solutions(max_count) is called and returns.  A call that follows
\* another count_solutions call starts from the state that call started
\* from, but for count and max_count, and is left out.
CountSolutions ==
    /\ pc \in {"idle", "done"}
    /\ \E m \in 0..MaxCount :
         LET res == count_solutions(grid, m) IN
         /\ count' = res.count
         /\ max_count' = m
         /\ grid' = res.grid
    /\ pc' = "counted"
    /\ entry_grid' = grid
    /\ entry_log' = moves_log
    /\ empty_cells' = <<>>
    /\ original_grid' = <<>>
    /\ frames' = <<>>
    /\ val' = 0
    /\ found' = FALSE
    /\ solved' = FALSE
    /\ puzzle' = SeenByCaller(puzzle, grid')
    /\ UNCHANGED <<files, moves_log, call>>

Next ==
    \/ Solve
    \/ Propagate
    \/ StartSearch
    \/ Backtrack
    \/ Undo
    \/ Finish
    \/ CountSolutions

Spec == Init /\ [][Next]_vars

\* a step of the running solve call
SolveStep == Propagate \/ StartSearch \/ Backtrack \/ Undo \/ Finish

\* the 2x2 grids and the 4x4 grids of four rows
FairRows4 ==
    {<<None, None, None, None>>, <<0, 0, None, None>>, <<None, 1, None, 0>>,
     <<0, 1, 1, 0>>}

FairPuzzles == Grids2 \cup [1..4 -> FairRows4]

InitFair == InitOn(FairPuzzles)

\* the interpreter runs a call of solve to its return: a call that can take
\* a step takes it.  For Propagate and StartSearch the weak fairness
\* condition is written out, with the guard of the action, which is all
\* that enables it, in the place of ENABLED.
SpecFair ==
    /\ InitFair
    /\ [][Next]_vars
    /\ ([]<>(pc # "propagate") \/ []<><<Propagate>>_vars)
    /\ ([]<>(pc # "propagated") \/ []<><<StartSearch>>_vars)
    /\ WF_vars(Backtrack)
    /\ WF_vars(Undo)
    /\ WF_vars(Finish)

-----------------------------------------------------------------------------
(* The solver on grids where a sweep fills cells and then meets a cell
   without a valid value *)

SweepRows4 ==
    {<<None, None, 1, None>>, <<0, 1, 0, 1>>, <<None, 1, 0, 0>>,
     <<1, 0, None, 1>>, <<1, 0, None, None>>, <<1, 0, 1, None>>,
     <<None, 0, None, 1>>, <<0, 0, None, 1>>}

SweepPuzzles == Grids2 \cup [1..4 -> SweepRows4]

InitSweep == InitOn(SweepPuzzles)

SpecSweep == InitSweep /\ [][Next]_vars

-----------------------------------------------------------------------------
(* solve called again on the same solver: the caller keeps what each call
   returned and left, and calls solve once more *)

TwicePuzzles == Puzzles \cup SweepPuzzles

InitTwice == InitOn(TwicePuzzles)

\* solved, moves_log = solver.solve(): what the call returned, and the grid
\* and the log as it left them
Returned == [op |-> "solve", solved |-> solved, grid |-> grid, log |-> moves_log]

CallerKeeps ==
    /\ pc = "done"
    /\ call # Returned
    /\ call' = Returned
    /\ UNCHANGED <<files, puzzle, grid, moves_log, pc, empty_cells, original_grid,
                   frames, val, found, solved, count, max_count, entry_grid,
                   entry_log>>

\* the first call, or a call that follows a call at once
SolveOnceMore ==
    /\ pc = "idle" \/ (pc = "done" /\ call = Returned)
    /\ Solve

NextTwice ==
    \/ SolveOnceMore
    \/ CallerKeeps
    \/ Propagate
    \/ StartSearch
    \/ Backtrack
    \/ Undo
    \/ Finish

SpecTwice == InitTwice /\ [][NextTwice]_vars

-----------------------------------------------------------------------------
(* The solver on lists that are no Binairo grid *)

\* rows of three cells
RowChoices3 ==
    {<<None, None, None>>, <<0, None, 1>>, <<0, 1, 0>>, <<1, 0, None>>}

\* grids with an odd side
OddGrids == [1..3 -> RowChoices3]

\* 2x2 grids with a cell that is none of None, 0 and 1
BadCellGrids ==
    {g \in [1..2 -> [1..2 -> {None, 0, 1, 2}]] :
        \E i \in 1..2 : \E j \in 1..2 : g[i][j] = 2}

\* two rows of three cells
WideGrids == [1..2 -> [1..3 -> {None, 0, 1}]]

MalformedPuzzles == OddGrids \cup BadCellGrids \cup WideGrids

\* BinairoSolver(puzzle): the constructor checks nothing
InitMalformed == InitOn(MalformedPuzzles)

SpecMalformed == InitMalformed /\ [][Next]_vars

-----------------------------------------------------------------------------
(* The callers of solve: run_workflow in main.py, _validate_solvability in
   validate.py and main in solve.py *)

Callers == {"run_workflow", "_validate_solvability", "main"}

\* main calls solver.count_solutions(3)
MainMaxCount == 3

CallerRows4 ==
    {<<None, None, None, None>>, <<0, 0, None, None>>, <<None, 1, None, 0>>,
     <<0, 1, 1, 0>>}

\* the grids the callers are given
CallerPuzzles == Grids2 \cup [1..4 -> CallerRows4]

InitCallers == InitOn(CallerPuzzles)

\* a caller builds solver = BinairoSolver(puzzle); unique: the caller has
\* seen count_solutions return 1; accepted: it has taken the puzzle as solved
CallerEnters ==
    /\ pc = "idle"
    /\ call = NoCall
    /\ \E name \in Callers :
           call' = [op |-> name, unique |-> FALSE, accepted |-> FALSE]
    /\ UNCHANGED <<files, puzzle, grid, moves_log, pc, empty_cells, original_grid,
                   frames, val, found, solved, count, max_count, entry_grid,
                   entry_log>>

\* main: solution_count = solver.count_solutions(3); it goes on only when
\* solution_count is 1
MainCounts ==
    /\ call.op = "main"
    /\ pc = "idle"
    /\ \E m \in {MainMaxCount} :
         LET res == count_solutions(grid, m) IN
         /\ count' = res.count
         /\ max_count' = m
         /\ grid' = res.grid
    /\ call' = [call EXCEPT !.unique = (count' = 1)]
    /\ pc' = "counted"
    /\ puzzle' = SeenByCaller(puzzle, grid')
    /\ UNCHANGED <<files, moves_log, empty_cells, original_grid, frames, val,
                   found, solved, entry_grid, entry_log>>

\* the caller calls solver.solve(), run_workflow and _validate_solvability
\* at once, main after count_solutions returned 1: the step Solve, from where
\* the caller is
CallerSolves ==
    /\ call.op \in Callers
    /\ IF call.op = "main" THEN pc = "counted" /\ count = 1 ELSE pc = "idle"
    /\ Solve

\* the caller takes the result: run_workflow stores the puzzle, main prints
\* the solution, _validate_solvability reports no error
CallerAccepts ==
    /\ call.op \in Callers
    /\ ~call.accepted
    /\ pc = "done"
    /\ solved
    /\ call.op = "_validate_solvability" => is_valid(grid)
    /\ call' = [call EXCEPT !.accepted = TRUE]
    /\ UNCHANGED <<files, puzzle, grid, moves_log, pc, empty_cells, original_grid,
                   frames, val, found, solved, count, max_count, entry_grid,
                   entry_log>>

NextCallers ==
    \/ CallerEnters
    \/ MainCounts
    \/ CallerSolves
    \/ Propagate
    \/ StartSearch
    \/ Backtrack
    \/ Undo
    \/ Finish
    \/ CallerAccepts

SpecCallers == InitCallers /\ [][NextCallers]_vars

-----------------------------------------------------------------------------
(* Direct calls of the two predicates on a new solver *)

IsValidCall ==
    /\ pc = "idle"
    /\ call' = [op |-> "is_valid", r |-> 0, c |-> 0, value |-> 0,
                result |-> is_valid(grid)]
    /\ pc' = "checked"
    /\ entry_grid' = grid
    /\ UNCHANGED <<files, puzzle, grid, moves_log, empty_cells, original_grid, frames,
                   val, found, solved, count, max_count, entry_log>>

IsValidPlacementCall ==
    /\ pc = "idle"
    /\ \E r \in Range0(0, size), c \in Range0(0, size), value \in {0, 1} :
         LET p == _is_valid_placement(grid, r, c, value) IN
         /\ call' = [op |-> "_is_valid_placement", r |-> r, c |-> c,
                     value |-> value, result |-> p.valid]
         /\ grid' = p.grid
    /\ pc' = "checked"
    /\ entry_grid' = grid
    /\ puzzle' = SeenByCaller(puzzle, grid')
    /\ UNCHANGED <<files, moves_log, empty_cells, original_grid, frames, val,
                   found, solved, count, max_count, entry_log>>

NextPredicates == IsValidCall \/ IsValidPlacementCall

SpecPredicates == Init /\ [][NextPredicates]_vars

-----------------------------------------------------------------------------
(* The text of a move and TechniqueAnalyzer._extract_technique of rank.py.
   A text is the sequence of its characters. *)

\* chr(65 + c)
Letter(c) == <<"A", "B", "C", "D", "E", "F", "G", "H">>[c + 1]

\* str(n), n >= 0
RECURSIVE Digits(_)
Digits(n) ==
    LET d == <<"0", "1", "2", "3", "4", "5", "6", "7", "8", "9">>[(n % 10) + 1]
    IN  IF n < 10 THEN <<d>> ELSE Digits(n \div 10) \o <<d>>

\* the text between the brackets of a move
NoteText(entry) ==
    IF entry.note = "Backtrack"
    THEN <<"B", "a", "c", "k", "t", "r", "a", "c", "k", " ">>
             \o Digits(entry.index) \o <<"/">> \o Digits(entry.total)
    ELSE <<"F", "o", "r", "c", "e", "d", " ", "b", "y", " ", "c", "o", "n", "s", "t", "r", "a", "i", "n", "t", "s">>

\* f"Set ({chr(65+c)},{r+1}) = {val} [...]"
MoveText(entry) ==
    <<"S", "e", "t", " ", "(">> \o <<Letter(entry.col), ",">>
        \o Digits(entry.row) \o <<")", " ", "=", " ">> \o Digits(entry.val)
        \o <<" ", "[">> \o NoteText(entry) \o <<"]">>

\* word in text
Contains(text, word) ==
    \E i \in 1..(Len(text) - Len(word) + 1) :
        SubSeq(text, i, i + Len(word) - 1) = word

_extract_technique(move) ==
    IF Contains(move, <<"A", "v", "o", "i", "d">>) THEN "Avoid"
    ELSE IF Contains(move, <<"B", "a", "l", "a", "n", "c", "e">>) THEN "Balance"
    ELSE IF Contains(move, <<"P", "r", "e", "v", "e", "n", "t">>) THEN "Prevent"
    ELSE IF Contains(move, <<"F", "o", "r", "c", "e", "d">>) THEN "Forced"
    ELSE "Unknown"

-----------------------------------------------------------------------------
(* decode_task of scrape.py.  A task string is the sequence of its
   characters; a call gives [raised |-> TRUE] for a ValueError and
   [raised |-> FALSE, grid |-> the list returned] otherwise. *)

\* a task string has at most MaxTaskLen characters
MaxTaskLen == 4

\* decode_task is called with width in 1..MaxWidth, height in 1..MaxHeight
MaxWidth == 3

MaxHeight == 2

LowerCase ==
    <<"a", "b", "c", "d", "e", "f", "g", "h", "i", "j", "k", "l", "m",
      "n", "o", "p", "q", "r", "s", "t", "u", "v", "w", "x", "y", "z">>

\* 'a' <= char <= 'z'
IsLower(char) == \E i \in 1..26 : LowerCase[i] = char

\* a variant that is wrong: ord(char) - ord('a')
SkipFromZero(char) == (CHOOSE i \in 1..26 : LowerCase[i] = char) - 1

\* ord(char) - ord('a') + 1
Skip(char) == CHOOSE i \in 1..26 : LowerCase[i] = char

ValueError == [raised |-> TRUE]

\* the loop `for char in task_str` from the k-th character on, and the test
\* that follows it
RECURSIVE DecodeFrom(_, _, _, _, _)
DecodeFrom(task_str, k, flat_grid, pos, total_cells) ==
    IF k > Len(task_str)
    THEN IF pos # total_cells
         THEN ValueError
         ELSE [raised |-> FALSE, flat_grid |-> flat_grid]
    ELSE LET char == task_str[k] IN
         IF char \in {"0", "1"}
         THEN IF pos >= total_cells
              THEN ValueError
              ELSE DecodeFrom(task_str, k + 1,
                              [flat_grid EXCEPT
                                  ![pos + 1] = IF char = "0" THEN 0 ELSE 1],
                              pos + 1, total_cells)
         ELSE IF IsLower(char)
         THEN IF pos + Skip(char) > total_cells
              THEN ValueError
              ELSE DecodeFrom(task_str, k + 1, flat_grid, pos + Skip(char),
                              total_cells)
         ELSE ValueError

decode_task(task_str, width, height) ==
    LET total_cells == width * height
        done == DecodeFrom(task_str, 1, [i \in 1..total_cells |-> None], 0,
                           total_cells)
    IN  IF done.raised
        THEN ValueError
        ELSE [raised |-> FALSE,
              grid |-> [r \in 1..height |-> [c \in 1..width |->
                           done.flat_grid[(r - 1) * width + c]]]]

\* the characters the task strings of the calls are made of
TaskChars == {"0", "1", "a", "b", "d", "z", "A", "2"}

TaskStrings == UNION {[1..n -> TaskChars] : n \in 0..MaxTaskLen}

\* a solver that takes no part in the calls of the functions of scrape.py
\* and validate.py
InitScripts == InitOn({<< <<None, None>>, <<None, None>> >>})

\* decode_task(task_str, width, height) is called and returns or raises
DecodeTaskCall ==
    /\ call = NoCall
    /\ \E task_str \in TaskStrings, width \in 1..MaxWidth,
          height \in 1..MaxHeight :
         call' = [op |-> "decode_task", task_str |-> task_str,
                  width |-> width, height |-> height,
                  result |-> decode_task(task_str, width, height)]
    /\ UNCHANGED <<files, puzzle, grid, moves_log, pc, empty_cells,
                   original_grid, frames, val, found, solved, count, max_count,
                   entry_grid, entry_log>>

NextDecode == DecodeTaskCall

SpecDecode == InitScripts /\ [][NextDecode]_vars

-----------------------------------------------------------------------------
(* The puzzle files: scrape.py, validate.py and run_workflow of main.py.

   What a JSON file holds is a record of its kind and its objects: the one
   object of a file that holds an object ("dict"), the elements of an array
   of objects ("list"), none for a number.  An object is a record of its
   keys.  The directory `files` is a function from the names of its .json
   files to what they hold. *)

\* scrape_multiple_puzzles and run_workflow are not started once
\* MaxStored puzzles are stored
MaxStored == 3

\* len(difficulties) * count of a call of scrape_multiple_puzzles is at most
\* MaxBatch
MaxBatch == 2

Object(d) == [kind |-> "dict", value |-> <<d>>]

Array(l) == [kind |-> "list", value |-> l]

Number(n) == [kind |-> "number", value |-> <<>>, number |-> n]

\* key in data.  An array of objects has no element equal to a string; for
\* a number the test raises TypeError, which every caller catches.
KeyIn(key, data) == data.kind = "dict" /\ key \in DOMAIN data.value[1]

\* max of a set of numbers that is not empty
MaxOf(S) == CHOOSE m \in S : \A x \in S : x <= m

\* what one file adds to max_id: data['id'] when 'id' in data
IdRead(data) == IF KeyIn("id", data) THEN data.value[1].id ELSE 0

get_next_puzzle_id(dir) ==
    IF DOMAIN dir = {}
    THEN 1
    ELSE MaxOf({0} \cup {IdRead(dir[f]) : f \in DOMAIN dir}) + 1

\* f"{size}x{size}"
SizeString(n) ==
    CASE n = 2 -> "2x2" [] n = 6 -> "6x6" [] n = 8 -> "8x8"
      [] n = 10 -> "10x10" [] n = 14 -> "14x14"

\* f"{size}x{size}.json"
get_size_filename(n) ==
    CASE n = 6 -> "6x6.json" [] n = 8 -> "8x8.json"
      [] n = 10 -> "10x10.json" [] n = 14 -> "14x14.json"

load_or_create_puzzle_file(dir, filepath) ==
    IF filepath \in DOMAIN dir
    THEN IF dir[filepath].kind = "dict" THEN <<dir[filepath].value[1]>>
         ELSE IF dir[filepath].kind = "list" THEN dir[filepath].value
         ELSE <<>>
    ELSE <<>>

\* json.dump(puzzles, f): the file holds an array, whatever it held
save_puzzle_file(dir, filepath, puzzles) ==
    [f \in DOMAIN dir \cup {filepath} |->
        IF f = filepath THEN Array(puzzles) ELSE dir[f]]

\* puzzle['id'] = n
SetId(data, n) ==
    [id |-> n, size |-> data.size, difficulty |-> data.difficulty,
     puzzle_id |-> data.puzzle_id, puzzle |-> data.puzzle]

-----------------------------------------------------------------------------
(* PuzzleValidator.validate_file: result['valid'] *)

REQUIRED_FIELDS == {"id", "size", "difficulty", "puzzle"}

VALID_DIFFICULTIES == {"easy", "hard"}

VALID_SIZES == {"6x6", "8x8", "10x10", "14x14"}

\* the checks of _validate_structure on one object
ObjectStructure(d) ==
    /\ REQUIRED_FIELDS \subseteq DOMAIN d
    /\ "id" \in DOMAIN d => d.id > 0
    /\ "size" \in DOMAIN d => d.size \in VALID_SIZES
    /\ "difficulty" \in DOMAIN d => d.difficulty \in VALID_DIFFICULTIES

\* TRUE when _validate_structure reports no error: of an array it checks
\* the first object only
_validate_structure(data) ==
    IF data.kind = "list"
    THEN IF data.value = <<>> THEN FALSE ELSE ObjectStructure(data.value[1])
    ELSE IF data.kind # "dict" THEN FALSE
    ELSE ObjectStructure(data.value[1])

\* 'x' in size_str, and int(size_str.split('x')[0]) raises no ValueError
SizeIsRead(size_str) == size_str \in {"2x2", "6x6", "8x8", "10x10", "14x14"}

\* int(size_str.split('x')[0])
ExpectedSize(size_str) ==
    CASE size_str = "2x2" -> 2 [] size_str = "6x6" -> 6 [] size_str = "8x8" -> 8
      [] size_str = "10x10" -> 10 [] size_str = "14x14" -> 14

\* TRUE when _validate_puzzle_grid reports no error on the object d
_validate_puzzle_grid(d) ==
    LET size_str == IF "size" \in DOMAIN d THEN d.size ELSE "" IN
    IF ~SizeIsRead(size_str) THEN TRUE
    ELSE IF Len(d.puzzle) # ExpectedSize(size_str) THEN FALSE
    ELSE \A i \in 1..Len(d.puzzle) :
             /\ Len(d.puzzle[i]) = ExpectedSize(size_str)
             /\ \A j \in 1..Len(d.puzzle[i]) : d.puzzle[i][j] \in {None, 0, 1}

\* TRUE when _validate_id reports no error
_validate_id(data, seen_ids) ==
    KeyIn("id", data) => ~(data.value[1].id \in seen_ids)

\* validate_file up to the call of _validate_solvability: valid is
\* result['valid'] there, solve tells whether _validate_solvability is called
FileChecks(data, seen_ids) ==
    LET valid == /\ _validate_structure(data)
                 /\ KeyIn("puzzle", data) => _validate_puzzle_grid(data.value[1])
                 /\ _validate_id(data, seen_ids)
    IN  [valid |-> valid, solve |-> valid /\ KeyIn("puzzle", data)]

-----------------------------------------------------------------------------
(* The puzzles the site serves *)

\* task strings of 6x6 puzzles: two of a grid with one solution, of which
\* one resp. four cells are left out, one of a filled grid with three equal
\* cells in a row, and one that overruns the grid
Task6OneHole ==
    <<"a", "0", "1", "0", "1", "0", "0", "1", "0", "1", "0", "1", "1", "0",
      "1", "0", "0", "1", "0", "1", "0", "1", "1", "0", "0", "0", "1", "1",
      "0", "1", "1", "1", "0", "0", "1", "0">>

Task6FourHoles ==
    <<"b", "1", "0", "1", "0", "b", "0", "1", "0", "1", "1", "0", "1", "0",
      "0", "1", "0", "1", "0", "1", "1", "0", "0", "0", "1", "1", "0", "1",
      "1", "1", "0", "0", "1", "0">>

Task6Invalid ==
    <<"0", "1", "1", "0", "1", "0", "0", "0", "0", "1", "1", "1", "1", "1",
      "0", "1", "0", "0", "1", "0", "1", "0", "1", "0", "0", "0", "1", "1",
      "0", "1", "1", "1", "0", "0", "0", "1">>

Task6Overrun == <<"z", "z">>

\* a task string of an 8x8 puzzle without clues
Task8Empty == <<"z", "z", "l">>

Tasks(n) ==
    IF n = 6 THEN {Task6OneHole, Task6FourHoles, Task6Invalid, Task6Overrun}
    ELSE {Task8Empty}

NoData == [scraped |-> FALSE]

\* what scrape_binairo(url) can return for the URL of size n and the given
\* difficulty: None, or the puzzle of a task the page holds
ScrapeResults(n, difficulty) ==
    {NoData} \cup
    {[scraped |-> TRUE, size |-> SizeString(n), difficulty |-> difficulty,
      puzzle_id |-> "1234", puzzle |-> decode_task(t, n, n).grid] :
        t \in {u \in Tasks(n) : ~decode_task(u, n, n).raised}}

-----------------------------------------------------------------------------
(* run_workflow of main.py and scrape_multiple_puzzles of scrape.py on a
   puzzles directory.  The record `call` holds the running call: its op,
   where it is (phase) and its locals. *)

ScriptOps == {"run_workflow", "scrape_multiple_puzzles", "validate_file"}

\* no script function is running
ScriptAtRest ==
    call = NoCall \/ (call.op \in ScriptOps /\ call.phase = "returned")

\* the places of the stored puzzles: <<file, index>>
Stored(dir) ==
    UNION {{<<f, i>> : i \in 1..Len(load_or_create_puzzle_file(dir, f))} :
              f \in DOMAIN dir}

\* solver = BinairoSolver(p)
NewSolver(p) ==
    /\ puzzle' = p
    /\ grid' = p
    /\ moves_log' = <<>>
    /\ pc' = "idle"
    /\ empty_cells' = <<>>
    /\ original_grid' = <<>>
    /\ frames' = <<>>
    /\ val' = 0
    /\ found' = FALSE
    /\ solved' = FALSE
    /\ count' = 0
    /\ max_count' = 0
    /\ entry_grid' = p
    /\ entry_log' = <<>>

SolverUnchanged ==
    UNCHANGED <<puzzle, grid, moves_log, pc, empty_cells, original_grid,
                frames, val, found, solved, count, max_count, entry_grid,
                entry_log>>

\* a puzzle stored in the old format, one object in a file
OldPuzzle(n) ==
    [id |-> n, size |-> "6x6", difficulty |-> "easy", puzzle_id |-> "1234",
     puzzle |-> decode_task(Task6OneHole, 6, 6).grid]

\* the directory before the first call: not there, or with one file in the
\* old format
InitialDirs ==
    {NoFiles,
     [f \in {"6x6.json"} |-> Object(OldPuzzle(1))],
     [f \in {"puzzle.json"} |-> Object(OldPuzzle(2))]}

InitStore ==
    /\ puzzle = << <<None, None>>, <<None, None>> >>
    /\ grid = puzzle
    /\ moves_log = <<>>
    /\ pc = "idle"
    /\ empty_cells = <<>>
    /\ original_grid = <<>>
    /\ frames = <<>>
    /\ val = 0
    /\ found = FALSE
    /\ solved = FALSE
    /\ count = 0
    /\ max_count = 0
    /\ entry_grid = puzzle
    /\ entry_log = <<>>
    /\ call = NoCall
    /\ files \in InitialDirs

\* run_workflow(6, difficulty) up to solver = BinairoSolver(...): it returns
\* False when the scrape failed
WorkflowScrapes ==
    /\ ScriptAtRest
    /\ Cardinality(Stored(files)) < MaxStored
    /\ \E difficulty \in VALID_DIFFICULTIES :
         \E puzzle_data \in ScrapeResults(6, difficulty) :
           IF ~puzzle_data.scraped
           THEN /\ call' = [op |-> "run_workflow", phase |-> "returned",
                            data |-> puzzle_data, result |-> FALSE]
                /\ SolverUnchanged
           ELSE /\ call' = [op |-> "run_workflow", phase |-> "scraped",
                            data |-> puzzle_data, result |-> FALSE]
                /\ NewSolver(puzzle_data.puzzle)
    /\ UNCHANGED files

\* solved, moves_log = solver.solve(): the step Solve
WorkflowSolves ==
    /\ call.op = "run_workflow"
    /\ call.phase = "scraped"
    /\ pc = "idle"
    /\ Solve

\* solve has returned: run_workflow returns False when the puzzle is not
\* solved; else it gives the puzzle its id, writes the file and returns what
\* validate_file of a new PuzzleValidator says of the file
WorkflowStores ==
    /\ call.op = "run_workflow"
    /\ call.phase = "scraped"
    /\ pc = "done"
    /\ IF ~solved
       THEN /\ call' = [call EXCEPT !.phase = "returned"]
            /\ UNCHANGED files
       ELSE LET puzzle_data ==
                    SetId([call.data EXCEPT !.puzzle = puzzle],
                          get_next_puzzle_id(files))
                size_filepath == get_size_filename(6)
                all_puzzles ==
                    load_or_create_puzzle_file(files, size_filepath)
                        \o <<puzzle_data>>
                saved == save_puzzle_file(files, size_filepath, all_puzzles)
            IN  /\ files' = saved
                /\ call' = [op |-> "run_workflow", phase |-> "returned",
                            data |-> puzzle_data,
                            result |->
                                FileChecks(saved[size_filepath], {}).valid]
    /\ SolverUnchanged

\* the scrapes of one size: a difficulty for each of the len(difficulties) *
\* count calls of scrape_binairo, in their order
Slots(difficulties, n) ==
    [k \in 1..(Len(difficulties) * n) |->
        difficulties[((k - 1) \div n) + 1]]

\* for j, puzzle in enumerate(new_puzzles): puzzle['id'] = next_id + j
AssignIds(new_puzzles, next_id) ==
    [j \in 1..Len(new_puzzles) |-> SetId(new_puzzles[j], next_id + j - 1)]

\* scrape_multiple_puzzles(sizes, difficulties, count) is called
BatchEnters ==
    /\ ScriptAtRest
    /\ Cardinality(Stored(files)) < MaxStored
    /\ \E sizes \in {<<6>>, <<8>>, <<6, 8>>},
          difficulties \in {<<"easy">>, <<"hard">>, <<"easy", "hard">>},
          n \in 1..MaxBatch :
         /\ Len(difficulties) * n <= MaxBatch
         /\ call' = [op |-> "scrape_multiple_puzzles", phase |-> "sizes",
                     sizes |-> sizes, difficulties |-> difficulties,
                     count |-> n, successful |-> 0]
    /\ SolverUnchanged
    /\ UNCHANGED files

\* one iteration of `for size in sizes`: the scrapes, then the ids and the
\* file when a puzzle was scraped; after the last size the call returns
BatchSize ==
    /\ call.op = "scrape_multiple_puzzles"
    /\ call.phase = "sizes"
    /\ LET n == Head(call.sizes)
           size_filepath == get_size_filename(n)
           existing_puzzles == load_or_create_puzzle_file(files, size_filepath)
           slots == Slots(call.difficulties, call.count)
       IN  \E results \in [1..Len(slots) ->
                              UNION {ScrapeResults(n, d) :
                                        d \in VALID_DIFFICULTIES}] :
             /\ \A k \in 1..Len(slots) : results[k] \in ScrapeResults(n, slots[k])
             /\ LET new_puzzles ==
                        AssignIds(SelectSeq(results, LAMBDA x : x.scraped),
                                  get_next_puzzle_id(files))
                IN  /\ files' =
                           IF new_puzzles # <<>>
                           THEN save_puzzle_file(files, size_filepath,
                                                 existing_puzzles \o new_puzzles)
                           ELSE files
                    /\ call' =
                           [call EXCEPT
                               !.sizes = Tail(call.sizes),
                               !.successful = @ + Len(new_puzzles),
                               !.phase = IF Tail(call.sizes) = <<>>
                                         THEN "returned" ELSE "sizes"]
    /\ SolverUnchanged

NextStore ==
    \/ WorkflowScrapes
    \/ WorkflowSolves
    \/ Propagate
    \/ StartSearch
    \/ Backtrack
    \/ Undo
    \/ Finish
    \/ WorkflowStores
    \/ BatchEnters
    \/ BatchSize

SpecStore == InitStore /\ [][NextStore]_vars

-----------------------------------------------------------------------------
(* PuzzleValidator.validate_file on one file *)

\* the grids of two puzzles and four lists that are no 6x6 grid of null,
\* 0, 1 cells or have no solution
GoodGrid6 == decode_task(Task6OneHole, 6, 6).grid

FileGrids ==
    {GoodGrid6,
     decode_task(Task6FourHoles, 6, 6).grid,
     decode_task(Task6Invalid, 6, 6).grid,
     SubSeq(GoodGrid6, 1, 5),
     [GoodGrid6 EXCEPT ![2] = SubSeq(GoodGrid6[2], 1, 5)],
     [GoodGrid6 EXCEPT ![1][1] = 2]}

\* the objects of the files: with an id or without
FileObjects ==
    [id : {0, 1, 2}, size : {"6x6", "2x2"}, difficulty : {"easy"},
     puzzle : FileGrids]
    \cup [size : {"6x6"}, difficulty : {"easy"}, puzzle : FileGrids]

\* what the file holds: an object, an array of at most two objects or a
\* number
FileContents ==
    {Object(d) : d \in FileObjects}
    \cup {Array(l) : l \in UNION {[1..n -> FileObjects] : n \in 0..2}}
    \cup {Number(5)}

InitValidate ==
    /\ puzzle = << <<None, None>>, <<None, None>> >>
    /\ grid = puzzle
    /\ moves_log = <<>>
    /\ pc = "idle"
    /\ empty_cells = <<>>
    /\ original_grid = <<>>
    /\ frames = <<>>
    /\ val = 0
    /\ found = FALSE
    /\ solved = FALSE
    /\ count = 0
    /\ max_count = 0
    /\ entry_grid = puzzle
    /\ entry_log = <<>>
    /\ call = NoCall
    /\ \E data \in FileContents : files = [f \in {"6x6.json"} |-> data]

\* validate_file(file_path, strict) of a validator that has seen the ids
\* seen_ids, up to the call of _validate_solvability; it returns at once
\* when that is not called
ValidateFileCall ==
    /\ call = NoCall
    /\ \E file_path \in DOMAIN files, strict \in BOOLEAN,
          seen_ids \in {{}, {1}} :
         LET checks == FileChecks(files[file_path], seen_ids) IN
         /\ call' = [op |-> "validate_file",
                     phase |-> IF checks.solve THEN "solving" ELSE "returned",
                     file_path |-> file_path, strict |-> strict,
                     seen_ids |-> seen_ids, valid |-> checks.valid]
         /\ IF checks.solve
            THEN NewSolver(files[file_path].value[1].puzzle)
            ELSE SolverUnchanged
    /\ UNCHANGED files

\* _validate_solvability: solved, _ = solver.solve(), the step Solve
ValidatorSolves ==
    /\ call.op = "validate_file"
    /\ call.phase = "solving"
    /\ pc = "idle"
    /\ Solve

\* solve has returned: _validate_solvability reports an error for a
\* puzzle not solved when strict, and for a solved grid that is not valid
ValidateReturns ==
    /\ call.op = "validate_file"
    /\ call.phase = "solving"
    /\ pc = "done"
    /\ call' = [call EXCEPT
                   !.phase = "returned",
                   !.valid = /\ ~(~solved /\ call.strict)
                             /\ ~(solved /\ ~is_valid(grid))]
    /\ SolverUnchanged
    /\ UNCHANGED files

NextValidate ==
    \/ ValidateFileCall
    \/ ValidatorSolves
    \/ Propagate
    \/ StartSearch
    \/ Backtrack
    \/ Undo
    \/ Finish
    \/ ValidateReturns

SpecValidate == InitValidate /\ [][NextValidate]_vars

-----------------------------------------------------------------------------
(* What the properties are stated with *)

\* the lines of a grid: its rows and its columns
RowsOf(g) == {g[i] : i \in 1..Len(g)}

ColumnsOf(g) == {[i \in 1..Len(g) |-> g[i][j]] : j \in 1..Len(g)}

HasNoEmpty(g) == \A i \in 1..Len(g) : \A j \in 1..Len(g) : g[i][j] \in {0, 1}

\* half zeros, half ones, no three consecutive equal values
GoodLine(line) ==
    /\ \A x \in {0, 1} :
           2 * Cardinality({i \in 1..Len(line) : line[i] = x}) = Len(line)
    /\ ~\E i \in 1..(Len(line) - 2) :
           line[i] = line[i + 1] /\ line[i + 1] = line[i + 2]

\* a complete grid that keeps every rule
FullyValid(g) ==
    /\ HasNoEmpty(g)
    /\ \A line \in RowsOf(g) \cup ColumnsOf(g) : GoodLine(line)
    /\ Cardinality(RowsOf(g)) = Len(g)
    /\ Cardinality(ColumnsOf(g)) = Len(g)

\* the good lines that agree with the filled cells of a row
RowFills(row) ==
    {q \in [1..Len(row) -> {0, 1}] :
        GoodLine(q) /\ \A i \in 1..Len(row) : row[i] = None \/ row[i] = q[i]}

RECURSIVE RowProduct(_, _)
RowProduct(g, i) ==
    IF i = 0 THEN {<<>>}
    ELSE {Append(s, q) : s \in RowProduct(g, i - 1), q \in RowFills(g[i])}

\* the valid completions of g: the fully valid grids that agree with its clues
Completions(g) == {s \in RowProduct(g, Len(g)) : FullyValid(s)}

IsPrefix(s, t) == Len(s) <= Len(t) /\ SubSeq(t, 1, Len(s)) = s

\* solve is running
InSolve == pc \in {"propagate", "propagated", "backtrack", "undo", "finish"}

\* as if value were placed at (r, c): no window of three through (r, c) is
\* all value, and row r and column c hold value at most half the time
LocallyAllowed(g, r, c, value) ==
    LET n == Len(g)
        h == SetCell(g, r, c, value)
    IN  /\ ~\E s \in 0..(n - 3) :
               s <= c /\ c <= s + 2 /\ \A k \in 0..2 : Cell(h, r, s + k) = value
        /\ ~\E s \in 0..(n - 3) :
               s <= r /\ r <= s + 2 /\ \A k \in 0..2 : Cell(h, s + k, c) = value
        /\ 2 * Cardinality({j \in 0..(n - 1) : Cell(h, r, j) = value}) <= n
        /\ 2 * Cardinality({i \in 0..(n - 1) : Cell(h, i, c) = value}) <= n

\* how many of 0 and 1 may be placed at (r, c)
AllowedCount(g, r, c) ==
    Cardinality({v \in {0, 1} : LocallyAllowed(g, r, c, v)})

\* the empty cells of g, as pairs <<r, c>>
EmptySet(g) ==
    {rc \in (0..(Len(g) - 1)) \X (0..(Len(g) - 1)) : Cell(g, rc[1], rc[2]) = None}

\* an empty cell of g where neither value may be placed
HasDeadCell(g) == \E rc \in EmptySet(g) : AllowedCount(g, rc[1], rc[2]) = 0

\* the place of a cell, or of the cell of a log entry, in row-major order
RowMajor(n, r, c) == r * n + c

EntryPlace(entry) == RowMajor(size, entry.row - 1, entry.col)

\* g with every cell outside row r and column c set to x
OutsideSetTo(g, r, c, x) ==
    [i \in 1..Len(g) |-> [j \in 1..Len(g) |->
        IF i = r + 1 \/ j = c + 1 THEN g[i][j] ELSE x]]

-----------------------------------------------------------------------------
(* The properties *)

\* C1: whenever solve returns solved = True, on every return path, the
\* solver's grid has no empty cell, is_valid() is true of it, and it is a
\* fully valid grid.
C1_SolvedIsValid ==
    (pc = "done" /\ solved) =>
        HasNoEmpty(grid) /\ is_valid(grid) /\ FullyValid(grid)

\* solve returned True after both forced moves and backtracking
C1_Witness ==
    /\ pc = "done" /\ solved
    /\ original_grid # <<>>
    /\ \E i \in 1..Len(moves_log) : moves_log[i].note = "Forced by constraints"
    /\ \E i \in 1..Len(moves_log) : moves_log[i].note = "Backtrack"

\* C2: solve returns True if and only if the grid it was called on has a
\* valid completion; when it has exactly one, solve returns True and the
\* final grid is that completion.
C2_SolvedIffCompletion ==
    pc = "done" =>
        LET comps == Completions(entry_grid) IN
        /\ solved <=> comps # {}
        /\ Cardinality(comps) = 1 => solved /\ comps = {grid}

\* backtracking found the only completion of a 4x4 grid
C2_Witness ==
    /\ pc = "done" /\ solved
    /\ original_grid # <<>>
    /\ Len(frames) = 0 /\ Len(empty_cells) >= 2
    /\ Cardinality(Completions(entry_grid)) = 1

\* C3: whenever solve returns solved = False, the grid is cell for cell the
\* grid solve was called on.
C3_FailureRestoresGrid ==
    (pc = "done" /\ ~solved) => grid = entry_grid

\* C4: count_solutions(limit) returns min(A, limit), A the number of valid
\* completions of the grid, for every limit >= 0 and every grid.
C4_CountIsMin ==
    pc = "counted" =>
        count = Min(Cardinality(Completions(entry_grid)), max_count)

\* C5: count_solutions(2) returns 1 when the grid has exactly one valid
\* completion and 2 when it has two or more.
C5_UniquenessBound ==
    (pc = "counted" /\ max_count = 2) =>
        LET a == Cardinality(Completions(entry_grid)) IN
        /\ a = 1 => count = 1
        /\ a >= 2 => count = 2

\* count_solutions(2) returned 2 on a grid with three or more completions
C5_Witness ==
    /\ pc = "counted" /\ max_count = 2 /\ count = 2
    /\ Cardinality(Completions(entry_grid)) >= 3

\* C6: the value count_solutions(max_count) returns is one of 0, 1 and
\* max_count.
C6_CountIsZeroOneOrMax ==
    pc = "counted" => count \in {0, 1, max_count}

\* C7: is_valid() returns True if and only if the grid has no empty cell,
\* every row and column is half zeros and half ones with no three
\* consecutive equal values, and the rows, and the columns, are pairwise
\* distinct.
C7_IsValidIffFullyValid ==
    call.op = "is_valid" => (call.result <=> FullyValid(grid))

\* is_valid() returned True on a 6x6 grid
C7_Witness ==
    call.op = "is_valid" /\ call.result /\ Len(grid) = 6

\* C8: _is_valid_placement(r, c, v) returns True if and only if, with v
\* placed at (r, c), no window of three through (r, c) is filled with equal
\* values and v occurs at most half the time in row r and in column c; the
\* cells outside row r and column c have no influence on the result: it is
\* the same when all of them are emptied, set to 0 or set to 1.
C8_PlacementIsLocal ==
    call.op = "_is_valid_placement" =>
        /\ call.result <=> LocallyAllowed(entry_grid, call.r, call.c, call.value)
        /\ \A x \in {None, 0, 1} :
               _is_valid_placement(OutsideSetTo(entry_grid, call.r, call.c, x),
                                   call.r, call.c, call.value).valid
                   = call.result

\* a placement refused only because of the row window that starts at (r, c):
\* the two counts stay within half and no column window is filled
C8_Witness ==
    /\ call.op = "_is_valid_placement" /\ ~call.result
    /\ call.c + 2 < size
    /\ Cell(entry_grid, call.r, call.c + 1) = call.value
    /\ Cell(entry_grid, call.r, call.c + 2) = call.value
    /\ (call.c > 0 => Cell(entry_grid, call.r, call.c - 1) # call.value)
    /\ LET h == SetCell(entry_grid, call.r, call.c, call.value) IN
       /\ row_count(h, call.r, call.value) <= half_size
       /\ col_count(h, call.c, call.value) <= half_size
       /\ ~ThreeInColumn(h, call.r, call.c)

\* C9: _is_valid_placement leaves the grid unchanged, whatever it returns.
C9_PlacementRestoresGrid ==
    call.op = "_is_valid_placement" => grid = entry_grid

\* _is_valid_placement returned False for an empty cell
C9_Witness ==
    /\ call.op = "_is_valid_placement" /\ ~call.result
    /\ Cell(entry_grid, call.r, call.c) = None

\* C10, as claimed: at every step of solve the log before the step is a
\* prefix of the log after it.
C10_AppendOnly ==
    [][InSolve => IsPrefix(moves_log, moves_log')]_vars

\* C10, amended: a step of solve either appends to the log or, when
\* _backtrack undoes a placement, removes exactly the last entry, which is
\* the Backtrack entry of that placement; the entries the log held when
\* solve was called and the forced-move entries are never removed.
C10_AppendOrUndo ==
    [][InSolve =>
          /\ IsPrefix(entry_log, moves_log')
          /\ IF pc = "undo"
             THEN /\ moves_log # <<>>
                  /\ moves_log' = SubSeq(moves_log, 1, Len(moves_log) - 1)
                  /\ moves_log[Len(moves_log)].note = "Backtrack"
                  /\ moves_log[Len(moves_log)].index = Len(frames)
             ELSE IsPrefix(moves_log, moves_log')]_vars

\* _backtrack has undone a placement below two forced moves
C10_Witness ==
    /\ pc = "backtrack" /\ val = 1
    /\ Len(moves_log) >= 2
    /\ moves_log[1].note = "Forced by constraints"

Malformed(p) ==
    \/ \E i \in 1..Len(p) : Len(p[i]) # Len(p)
    \/ Len(p) % 2 = 1
    \/ \E i \in 1..Len(p) : \E j \in 1..Len(p[i]) : p[i][j] \notin {None, 0, 1}

\* C12: a solver built on a malformed list (not square, odd side, or a cell
\* that is none of 0, 1 and None) rejects it before solving begins: solve
\* and count_solutions never enter the propagation or the search, place no
\* value, log no move and report no solution.
C12_MalformedRejected ==
    Malformed(puzzle) =>
        /\ ~InSolve
        /\ grid = puzzle
        /\ moves_log = <<>>
        /\ ~(pc = "done" /\ solved)
        /\ ~(pc = "counted" /\ count > 0)

\* C13: a caller that has accepted a result of solve (run_workflow,
\* _validate_solvability, main of solve.py) has first seen count_solutions
\* return 1 on the clue grid, so the puzzle it accepted has exactly one
\* valid completion.
C13_AcceptedIsUnique ==
    (call.op \in Callers /\ call.accepted) =>
        /\ call.unique
        /\ Cardinality(Completions(puzzle)) = 1

\* the filled cells of a line break a rule: three consecutive equal values,
\* or a value more than half the time
BadLine(line) ==
    \/ \E i \in 1..(Len(line) - 2) :
           line[i] # None /\ line[i] = line[i + 1] /\ line[i + 1] = line[i + 2]
    \/ \E x \in {0, 1} :
           2 * Cardinality({i \in 1..Len(line) : line[i] = x}) > Len(line)

FullLine(line) == \A i \in 1..Len(line) : line[i] # None

\* the clues of g already break a rule
ClueViolation(g) ==
    \/ \E line \in RowsOf(g) \cup ColumnsOf(g) : BadLine(line)
    \/ \E i, j \in 1..Len(g) : i < j /\ FullLine(g[i]) /\ g[i] = g[j]
    \/ \E i, j \in 1..Len(g) :
           /\ i < j
           /\ FullLine([k \in 1..Len(g) |-> g[k][i]])
           /\ \A k \in 1..Len(g) : g[k][i] = g[k][j]

\* C14: when the clues of the grid solve is called on already break a rule,
\* solve makes no deduction: from its call to its return no cell is filled
\* and no move is logged, and it returns solved = False.
C14_InvalidCluesNoDeduction ==
    ((InSolve \/ pc = "done") /\ ClueViolation(entry_grid)) =>
        /\ grid = entry_grid
        /\ moves_log = entry_log
        /\ ~solved

\* C15: solve called on a grid with no empty cell makes no move: it leaves
\* the grid and the log as they are, and returns True when the grid is fully
\* valid and False when it is not.
C15_CompleteGridNoMoves ==
    (pc = "done" /\ HasNoEmpty(entry_grid)) =>
        /\ grid = entry_grid
        /\ moves_log = entry_log
        /\ solved <=> FullyValid(entry_grid)

\* a new solver on a complete and fully valid 6x6 grid returned True
C15_Witness ==
    /\ pc = "done" /\ solved
    /\ HasNoEmpty(puzzle) /\ Len(puzzle) = 6
    /\ moves_log = <<>>

\* every entry of the log is a forced move
AllForced(log) ==
    \A i \in 1..Len(log) : log[i].note = "Forced by constraints"

\* C16: when solve returns True and every move of the log is a forced move
\* (propagation alone has filled the grid, no entry of the search), the clue
\* grid has exactly one valid completion, the final grid, and
\* count_solutions(2) on the clue grid is 1.
C16_ForcedOnlyIsUnique ==
    (pc = "done" /\ solved /\ AllForced(moves_log)) =>
        /\ Completions(puzzle) = {grid}
        /\ count_solutions(puzzle, 2).count = 1

\* solve returned True after propagation alone filled three cells or more
C16_Witness ==
    /\ pc = "done" /\ solved
    /\ AllForced(moves_log)
    /\ Len(moves_log) >= 3
    /\ original_grid = <<>>

\* the list of cells is in ascending order of the number of values that may
\* be placed in g, cells with equal numbers in row-major order
SortedByConstraints(g, cells) ==
    \A i, j \in 1..Len(cells) :
        i < j =>
            LET ki == AllowedCount(g, cells[i][1], cells[i][2])
                kj == AllowedCount(g, cells[j][1], cells[j][2])
            IN  \/ ki < kj
                \/ /\ ki = kj
                   /\ RowMajor(Len(g), cells[i][1], cells[i][2])
                          < RowMajor(Len(g), cells[j][1], cells[j][2])

\* g comes before s in the order of the list of cells, 0 before 1
LexBefore(g, s, cells) ==
    \E k \in 1..Len(cells) :
        /\ \A m \in 1..(k - 1) :
               Cell(g, cells[m][1], cells[m][2]) = Cell(s, cells[m][1], cells[m][2])
        /\ Cell(g, cells[k][1], cells[k][2]) = 0
        /\ Cell(s, cells[k][1], cells[k][2]) = 1

\* the search is running
InSearch == pc \in {"backtrack", "undo", "finish"}

\* C17: the search visits the cells in one order, fixed before it starts:
\* the list is sorted by the number of values that may be placed in the grid
\* as propagation left it, cells with equal numbers in row-major order, and
\* no step of the search changes it; a cell takes 1 only when 0 may not be
\* placed or was already tried; and the grid solve returns with True is,
\* among the valid completions of the grid solve was called on, the least
\* in that order of cells with 0 before 1.
C17_StaticOrderLeastCompletion ==
    [][InSearch =>
          /\ empty_cells' = empty_cells
          /\ original_grid' = original_grid
          /\ SortedByConstraints(original_grid, empty_cells)
          /\ (pc = "backtrack" /\ Len(frames') > Len(frames)
                  /\ frames'[Len(frames')] = 1 /\ val = 0) =>
                 ~LocallyAllowed(grid, empty_cells[Len(frames')][1],
                                 empty_cells[Len(frames')][2], 0)
          /\ (pc' = "done" /\ solved') =>
                 \A s \in Completions(entry_grid) :
                     s = grid' \/ LexBefore(grid', s, empty_cells)]_vars

\* the search returned True on a grid with three valid completions or more,
\* and a cell that could take 0 when the search started has taken 1
C17_Witness ==
    /\ pc = "done" /\ solved
    /\ original_grid # <<>>
    /\ Cardinality(Completions(entry_grid)) >= 3
    /\ \E i \in 1..Len(empty_cells) :
           Cell(grid, empty_cells[i][1], empty_cells[i][2]) = 1
               /\ LocallyAllowed(original_grid, empty_cells[i][1],
                                 empty_cells[i][2], 0)

\* C18: no step of solve or count_solutions, whatever it returns, changes
\* the list the caller passed to BinairoSolver.
C18_CallerGridUnchanged ==
    [][puzzle' = puzzle]_vars

\* count_solutions has returned after a solve that filled cells: the
\* solver's grid differs from the caller's list
C18_Witness ==
    /\ pc = "counted"
    /\ moves_log # <<>>
    /\ grid # puzzle

\* C19: every call of solve returns; a sweep that is followed by another
\* sweep has left fewer empty cells than it found; and during the search
\* the number of nested _backtrack calls that hold a placement is at most
\* the length of the list of cells and at most the number of cells that
\* were empty when the search started.
C19_SolveTerminates ==
    /\ InSolve ~> (pc = "done")
    /\ [][(pc = "propagate" /\ pc' = "propagate") =>
              Cardinality(EmptySet(grid')) < Cardinality(EmptySet(grid))]_vars
    /\ [](InSearch =>
              /\ Len(frames) <= Len(empty_cells)
              /\ Len(frames) <= Cardinality(EmptySet(original_grid)))

\* solve has returned False after a search that went back on placements in
\* a grid with eight empty cells or more
C19_Witness ==
    /\ pc = "done" /\ ~solved
    /\ original_grid # <<>>
    /\ Len(empty_cells) >= 8

\* C20: every move in the log of solve carries a tag of the closed
\* vocabulary, ForcedMove for a cell filled by propagation and Search for a
\* cell filled by the search, and the ranker's _extract_technique gives a
\* known technique, never 'Unknown', for it.
C20_MovesAreKnownTechniques ==
    \A i \in 1..Len(moves_log) :
        /\ \/ Contains(MoveText(moves_log[i]), <<"F", "o", "r", "c", "e", "d", "M", "o", "v", "e">>)
           \/ Contains(MoveText(moves_log[i]), <<"S", "e", "a", "r", "c", "h">>)
        /\ _extract_technique(MoveText(moves_log[i])) # "Unknown"

-----------------------------------------------------------------------------
(* C22 *)

\* what a character moves the position by, 0 for a character that is
\* neither a digit nor a lower-case letter
Advance(char) ==
    IF char \in {"0", "1"} THEN 1
    ELSE IF IsLower(char) THEN CHOOSE n \in 1..26 : LowerCase[n] = char
    ELSE 0

\* the sum of the advances of the characters before the k-th
RECURSIVE AdvanceBefore(_, _)
AdvanceBefore(task_str, k) ==
    IF k <= 1 THEN 0
    ELSE AdvanceBefore(task_str, k - 1) + Advance(task_str[k - 1])

BadChar(task_str) ==
    \E k \in 1..Len(task_str) :
        ~(task_str[k] \in {"0", "1"}) /\ ~IsLower(task_str[k])

\* the row-major position p holds the digit of a character of the task
DigitAt(task_str, p) ==
    {k \in 1..Len(task_str) :
        task_str[k] \in {"0", "1"} /\ AdvanceBefore(task_str, k) = p}

\* C22: decode_task raises ValueError exactly when the task has a character
\* other than 0, 1, a-z or its total advance is not width * height;
\* otherwise it returns height rows of width cells where every digit sits
\* at the row-major position that is the sum of the advances before it and
\* every other cell is None
C22_DecodeTask ==
    call.op = "decode_task" =>
        LET t == call.task_str
            w == call.width
            h == call.height
            bad == BadChar(t) \/ AdvanceBefore(t, Len(t) + 1) # w * h
        IN  /\ call.result.raised <=> bad
            /\ ~call.result.raised =>
                 /\ Len(call.result.grid) = h
                 /\ \A r \in 1..h :
                      /\ Len(call.result.grid[r]) = w
                      /\ \A c \in 1..w :
                           LET p == (r - 1) * w + (c - 1)
                               x == call.result.grid[r][c]
                           IN  IF DigitAt(t, p) = {}
                               THEN x = None
                               ELSE \A k \in DigitAt(t, p) :
                                        x = (IF t[k] = "0" THEN 0 ELSE 1)

\* the task "a1b" decoded into two rows of two cells
C22_Witness ==
    /\ call.op = "decode_task"
    /\ call.task_str = <<"a", "1", "b">>
    /\ call.width = 2
    /\ call.height = 2
    /\ ~call.result.raised
    /\ call.result.grid = << <<None, 1>>, <<None, None>> >>

-----------------------------------------------------------------------------
(* C21 *)

\* the puzzle stored at a place
StoredAt(dir, place) == load_or_create_puzzle_file(dir, place[1])[place[2]]

\* C21: the id get_next_puzzle_id returns is greater than the id of every
\* stored puzzle, and no two stored puzzles have the same id
C21_StoredIdsDistinct ==
    /\ \A place \in Stored(files) :
           get_next_puzzle_id(files) > StoredAt(files, place).id
    /\ \A p \in Stored(files), q \in Stored(files) :
           p # q => StoredAt(files, p).id # StoredAt(files, q).id

-----------------------------------------------------------------------------
(* C23 *)

\* the grid of the object d has as many rows, and in each row as many
\* cells, as its size says, and every cell is None, 0 or 1
WellFormedGrid(d) ==
    /\ "size" \in DOMAIN d
    /\ SizeIsRead(d.size)
    /\ Len(d.puzzle) = ExpectedSize(d.size)
    /\ \A i \in 1..Len(d.puzzle) :
         /\ Len(d.puzzle[i]) = ExpectedSize(d.size)
         /\ \A j \in 1..Len(d.puzzle[i]) : d.puzzle[i][j] \in {None, 0, 1}

\* C23: when validate_file returns valid = True, every puzzle of the file,
\* an array or one object, has a well-formed grid and a positive integer
\* id that no other puzzle of the file has
C23_ValidMeansWellFormed ==
    (call.op = "validate_file" /\ call.phase = "returned" /\ call.valid) =>
        LET all == load_or_create_puzzle_file(files, call.file_path) IN
        \A i \in 1..Len(all) :
            /\ WellFormedGrid(all[i])
            /\ "id" \in DOMAIN all[i]
            /\ all[i].id > 0
            /\ \A j \in 1..Len(all) : j # i =>
                   ("id" \in DOMAIN all[j] => all[j].id # all[i].id)

-----------------------------------------------------------------------------
(* C24 *)

\* the grid with the values of the suspended _backtrack calls, and nothing
\* else, written into the grid the search began with
FramesGrid ==
    [r \in 1..size |-> [c \in 1..size |->
        LET I == {i \in 1..Len(frames) : empty_cells[i] = <<r - 1, c - 1>>}
        IN  IF I = {} THEN original_grid[r][c]
            ELSE frames[CHOOSE i \in I : TRUE]]]

\* the log entries of the suspended _backtrack calls
FramesLog ==
    [i \in 1..Len(frames) |->
        Move(empty_cells[i][1], empty_cells[i][2], frames[i], "Backtrack",
             i, Len(empty_cells))]

\* the log without one entry for each suspended call
SearchBase == SubSeq(moves_log, 1, Len(moves_log) - Len(frames))

\* the grid and the log as they are when the call
\* _backtrack(empty_cells, Len(frames)) is entered: its callers' values and
\* entries, and nothing else
AsEntered ==
    /\ grid = FramesGrid
    /\ Len(moves_log) >= Len(frames)
    /\ SubSeq(moves_log, Len(moves_log) - Len(frames) + 1, Len(moves_log))
           = FramesLog

\* every cell of empty_cells from the one of the running call on is empty
CellsFromIndexEmpty ==
    \A i \in (Len(frames) + 1)..Len(empty_cells) :
        Cell(grid, empty_cells[i][1], empty_cells[i][2]) = None

\* the running call _backtrack(empty_cells, Len(frames)) returns False
ReturnsFalse ==
    pc = "backtrack" /\ pc' \in {"undo", "finish"} /\ ~found'

\* C24 as it is stated: when a call _backtrack(empty_cells, index) returns
\* False the grid and the log are as they were when it was entered, and
\* every cell of empty_cells from position index on is empty
C24_CellsEmptyAgain ==
    [][ReturnsFalse => (AsEntered' /\ CellsFromIndexEmpty')]_vars

\* C24, amended: the grid and the log are as they were when the call was
\* entered, at its entry, whenever it runs and when it returns False: its
\* callers' values and entries are there, the log below them is the one the
\* search began with, and every other cell holds what it held when the
\* search began
C24_FalseReturnRestores ==
    [][(pc \in {"propagated", "backtrack", "undo"}
            /\ pc' \in {"backtrack", "undo", "finish"})
        => /\ pc # "propagated" => SearchBase' = SearchBase
           /\ (pc' = "backtrack" \/ ~found') => AsEntered']_vars

\* a call that is no leaf has undone a value and returned False
C24_Witness ==
    /\ pc = "undo"
    /\ Len(frames) >= 1
    /\ Len(frames) < Len(empty_cells)
    /\ val > 0
    /\ AsEntered

-----------------------------------------------------------------------------
(* C25 *)

\* the backtracking entries of a log, in their order
BacktrackEntries(log) == SelectSeq(log, LAMBDA e : e.note = "Backtrack")

\* C25: in the log solve returns, no forced-move entry comes after a
\* backtracking entry; after a successful solve the backtracking entries
\* are numbered 1..n of n, and for a call that searched they are the cells
\* of the sorted list, one entry for each, in its order, with the value the
\* cell now holds
C25_LogInSearchOrder ==
    pc = "done" =>
        LET B == BacktrackEntries(moves_log) IN
        /\ \A i \in 1..Len(moves_log) : \A j \in (i + 1)..Len(moves_log) :
               moves_log[i].note = "Backtrack" => moves_log[j].note = "Backtrack"
        /\ solved =>
             /\ \A i \in 1..Len(B) : B[i].index = i /\ B[i].total = Len(B)
             /\ empty_cells # <<>> =>
                  B = [i \in 1..Len(empty_cells) |->
                          Move(empty_cells[i][1], empty_cells[i][2],
                               Cell(grid, empty_cells[i][1], empty_cells[i][2]),
                               "Backtrack", i, Len(empty_cells))]

\* a solve that forced cells and then searched three cells or more, the
\* first of which did not keep the value 0
C25_Witness ==
    /\ pc = "done"
    /\ solved
    /\ Len(empty_cells) >= 3
    /\ moves_log # <<>>
    /\ moves_log[1].note # "Backtrack"
    /\ Len(BacktrackEntries(moves_log)) = Len(empty_cells)
    /\ BacktrackEntries(moves_log)[1].val = 1

-----------------------------------------------------------------------------
(* C26 *)

\* the entries the running or the last call of solve has appended
NewEntries == SubSeq(moves_log, Len(entry_log) + 1, Len(moves_log))

\* the entry names the cell (r, c)
Names(entry, r, c) == entry.row = r + 1 /\ entry.col = c

\* C26: while solve runs and when it has returned no cell that held a clue
\* when solve was called holds another value; when solve has returned, True
\* or False, the cells that differ from the grid solve was called on are
\* the cells its entries name, every such cell is named once, was empty
\* and holds the value of its entry
C26_LogAndGridAgree ==
    (InSolve \/ pc = "done") =>
        /\ \A r \in Range0(0, size), c \in Range0(0, size) :
               Cell(entry_grid, r, c) # None
                   => Cell(grid, r, c) = Cell(entry_grid, r, c)
        /\ pc = "done" =>
             /\ IsPrefix(entry_log, moves_log)
             /\ \A r \in Range0(0, size), c \in Range0(0, size) :
                    Cell(grid, r, c) # Cell(entry_grid, r, c)
                        <=> \E i \in 1..Len(NewEntries) :
                                Names(NewEntries[i], r, c)
             /\ \A i \in 1..Len(NewEntries) :
                    LET r == NewEntries[i].row - 1
                        c == NewEntries[i].col
                    IN  /\ Cell(entry_grid, r, c) = None
                        /\ Cell(grid, r, c) = NewEntries[i].val
                        /\ \A j \in 1..Len(NewEntries) :
                               Names(NewEntries[j], r, c) => j = i

\* solve has returned False with forced moves in the log and in the grid,
\* after a search that placed and took back values
C26_Witness ==
    /\ pc = "done"
    /\ ~solved
    /\ found = FALSE
    /\ original_grid # <<>>
    /\ NewEntries # <<>>
    /\ \E i \in 1..Len(empty_cells) :
           AllowedCount(original_grid, empty_cells[i][1], empty_cells[i][2]) > 0
    /\ ~HasDeadCell(original_grid)

-----------------------------------------------------------------------------
(* C27 *)

\* C27: when count_solutions has returned, every cell holds the value it
\* held when count_solutions was called and the log is the one it was
\* called with, for every grid and every max_count
C27_CountLeavesGridAndLog ==
    pc = "counted" => (grid = entry_grid /\ moves_log = entry_log)

\* count_solutions(1) has stopped at its limit on a grid with empty cells
\* and more than one completion
C27_Witness ==
    /\ pc = "counted"
    /\ max_count = 1
    /\ count = 1
    /\ EmptySet(entry_grid) # {}
    /\ Cardinality(Completions(entry_grid)) >= 2
    /\ grid = entry_grid

-----------------------------------------------------------------------------
(* C28 *)

\* the sweep that ends the propagation loop
LastSweep == pc = "propagate" /\ pc' = "propagated"

\* the cells a step has written
ChangedCells ==
    {rc \in Range0(0, size) \X Range0(0, size) :
        Cell(grid, rc[1], rc[2]) # Cell(grid', rc[1], rc[2])}

\* the empty cells of g without a valid value
DeadCells(g) == {rc \in EmptySet(g) : AllowedCount(g, rc[1], rc[2]) = 0}

\* the first of a set of cells in row-major order
FirstCell(S) ==
    CHOOSE rc \in S :
        \A other \in S :
            RowMajor(size, rc[1], rc[2]) <= RowMajor(size, other[1], other[2])

\* the cell at which the last sweep returned False: the first cell without
\* a valid value that comes after every cell the sweep has filled
MetCell ==
    FirstCell({rc \in DeadCells(grid') :
                  \A ch \in ChangedCells :
                      RowMajor(size, ch[1], ch[2]) < RowMajor(size, rc[1], rc[2])})

\* the list the search is given when the loop has ended
SortedAfterLoop == _sort_by_constraints(grid', empty_cells').cells

\* the loop has ended and no cell is without a valid value: every empty
\* cell admits both values and the sorted list is the empty cells in
\* row-major order
AllCellsOpen ==
    /\ \A rc \in EmptySet(grid') : AllowedCount(grid', rc[1], rc[2]) = 2
    /\ {SortedAfterLoop[i] : i \in 1..Len(SortedAfterLoop)} = EmptySet(grid')
    /\ \A i \in 1..Len(SortedAfterLoop), j \in 1..Len(SortedAfterLoop) :
           i < j => RowMajor(size, SortedAfterLoop[i][1], SortedAfterLoop[i][2])
                        < RowMajor(size, SortedAfterLoop[j][1], SortedAfterLoop[j][2])

\* the search of a grid with a cell without a valid value: the call at
\* index 0 returns False, nothing is placed or logged
FailsAtIndexZero ==
    /\ frames = <<>>
    /\ pc' = "finish"
    /\ ~found'
    /\ grid' = grid
    /\ moves_log' = moves_log
    /\ frames' = <<>>

\* C28 as it is stated: when the loop has ended without a cell without a
\* valid value, all cells are open and searched in row-major order; when
\* it ended at such a cell, that cell is the first of the sorted list and
\* _backtrack fails at index 0 without placing a value
C28_MetCellSortedFirst ==
    [][/\ LastSweep =>
            IF DeadCells(grid') = {} THEN AllCellsOpen
            ELSE SortedAfterLoop[1] = MetCell
       /\ (pc = "backtrack" /\ DeadCells(original_grid) # {})
            => FailsAtIndexZero]_vars

\* C28, amended: when the loop ended at a cell without a valid value, the
\* first cell of the sorted list is an empty cell without a valid value,
\* the first such cell of the list in row-major order and never one after
\* the cell that was met
C28_DeadCellSortedFirst ==
    [][/\ LastSweep =>
            IF DeadCells(grid') = {} THEN AllCellsOpen
            ELSE /\ SortedAfterLoop[1] = FirstCell(DeadCells(grid'))
                 /\ RowMajor(size, SortedAfterLoop[1][1], SortedAfterLoop[1][2])
                        <= RowMajor(size, MetCell[1], MetCell[2])
       /\ (pc = "backtrack" /\ DeadCells(original_grid) # {})
            => FailsAtIndexZero]_vars

\* the search has failed at index 0 on a grid where the sweep filled cells
\* and met a cell without a valid value that is not the first such cell
C28_Witness ==
    /\ pc = "finish"
    /\ ~found
    /\ frames = <<>>
    /\ original_grid # <<>>
    /\ grid = original_grid
    /\ Cardinality(DeadCells(grid)) >= 2
    /\ \E i \in 1..Len(empty_cells) :
           Cell(grid, empty_cells[i][1], empty_cells[i][2]) # None
    /\ Cell(grid, empty_cells[1][1], empty_cells[1][2]) = None
    /\ AllowedCount(grid, empty_cells[1][1], empty_cells[1][2]) = 0

-----------------------------------------------------------------------------
(* C29 *)

\* a row or a column of g has three consecutive equal values or holds a
\* value more than half the time
LineViolation(g) == \E line \in RowsOf(g) \cup ColumnsOf(g) : BadLine(line)

\* _backtrack is at a leaf: every cell of empty_cells has a value and the
\* next step gives the grid to is_valid
AtBacktrackLeaf == pc = "backtrack" /\ Len(frames) >= Len(empty_cells)

\* a full grid whose every line keeps the balance and the rule of three,
\* and that is_valid rejects only when two rows or two columns are equal
LeafKeepsLineRules(g) ==
    /\ HasNoEmpty(g)
    /\ \A line \in RowsOf(g) \cup ColumnsOf(g) : GoodLine(line)
    /\ ~is_valid(g) =>
           \/ \E i, j \in 1..Len(g) : i < j /\ g[i] = g[j]
           \/ \E i, j \in 1..Len(g) :
                  i < j /\ \A k \in 1..Len(g) : g[k][i] = g[k][j]

\* C29: when no line of the grid that solve or count_solutions is called on
\* has three consecutive equal values or a value more than half the time,
\* every grid that a leaf of _backtrack or of _count_solutions_recursive
\* gives to is_valid is full, has half zeros and half ones in every row and
\* column and no three consecutive equal values; is_valid rejects it only
\* when two of its rows or two of its columns are identical
C29_LeavesKeepLineRules ==
    /\ (AtBacktrackLeaf /\ ~LineViolation(entry_grid)) =>
           LeafKeepsLineRules(grid)
    /\ (pc = "counted" /\ ~LineViolation(entry_grid)) =>
           \A g \in count_solutions(entry_grid, max_count).leaves :
               LeafKeepsLineRules(g)

\* _backtrack has reached a leaf from clues that break no line rule, and
\* is_valid rejects the grid: two of its rows are identical
C29_Witness ==
    /\ AtBacktrackLeaf
    /\ ~LineViolation(entry_grid)
    /\ ~is_valid(grid)
    /\ Cardinality(RowsOf(grid)) < Len(grid)
    /\ Len(empty_cells) > 1

-----------------------------------------------------------------------------
(* C30 *)

\* solve has returned and the caller holds what the call before it returned
\* and left
AfterCall == pc = "done" /\ call.op = "solve"

\* every cell that g has filled holds the same value in h
Keeps(g, h) ==
    \A i \in 1..Len(g) : \A j \in 1..Len(g) :
        g[i][j] # None => h[i][j] = g[i][j]

====
